---- MODULE Spec2Model ----
(***************************************************************************)
(* Model of the paper-summarisation / website-generation service.          *)
(*                                                                         *)
(* Two deployments of the same service exist in the repository:            *)
(*   src/api/index.py  - Postgres, one transaction per summarize request   *)
(*                       ("aggregate" commit)                              *)
(*   src/app.py        - SQLite, one connection and commit per file        *)
(*                       ("per_item" commit)                               *)
(* The variable `variant` fixes which deployment a behaviour is about.     *)
(*                                                                         *)
(* Strings are sequences of symbols.  A symbol is one character, except    *)
(* that the literal markers the code searches for ("Conclusion:", "const", *)
(* "require(", "import", "from", module names, the comment texts the       *)
(* sanitizer emits) are single symbols; none of them overlaps itself or    *)
(* another symbol, so searching for the symbol finds what the code finds.  *)
(***************************************************************************)
EXTENDS Integers, Sequences, FiniteSets, TLC

(***************************************************************************)
(* Bounds of the model                                                     *)
(***************************************************************************)
NumReqs == 2        \* request slots that may run concurrently
MaxFiles == 2       \* files per summarize batch
MaxIds == 4         \* size of the identifier space uuid4 draws from

Reqs == 1..NumReqs
IdSpace == 1..MaxIds

(***************************************************************************)
(* String helpers (Python str semantics on symbol sequences)               *)
(***************************************************************************)
Whitespace == {" ", "\n", "\t"}

IsBlank(s) == \A k \in 1..Len(s) : s[k] \in Whitespace

\* str.lstrip()
RECURSIVE LStrip(_)
LStrip(s) ==
    IF s = <<>> THEN <<>>
    ELSE IF Head(s) \in Whitespace THEN LStrip(Tail(s)) ELSE s

\* str.rstrip()
RECURSIVE RStrip(_)
RStrip(s) ==
    IF s = <<>> THEN <<>>
    ELSE IF s[Len(s)] \in Whitespace THEN RStrip(SubSeq(s, 1, Len(s) - 1)) ELSE s

\* str.strip()
Strip(s) == RStrip(LStrip(s))

\* str.find(sep): index of the first occurrence of the symbol, 0 when absent
RECURSIVE FindFrom(_, _, _)
FindFrom(s, sep, k) ==
    IF k > Len(s) THEN 0
    ELSE IF s[k] = sep THEN k ELSE FindFrom(s, sep, k + 1)

Find(s, sep) == FindFrom(s, sep, 1)

\* str.split(sep): never returns an empty list
RECURSIVE Split(_, _)
Split(s, sep) ==
    LET k == Find(s, sep) IN
    IF k = 0 THEN <<s>>
    ELSE <<SubSeq(s, 1, k - 1)>> \o Split(SubSeq(s, k + 1, Len(s)), sep)

\* str.split(sep, 1): at most one split, at the first occurrence
SplitOnce(s, sep) ==
    LET k == Find(s, sep) IN
    IF k = 0 THEN <<s>>
    ELSE <<SubSeq(s, 1, k - 1), SubSeq(s, k + 1, Len(s))>>

\* sep.join(parts)
RECURSIVE Join(_, _)
Join(parts, sep) ==
    IF parts = <<>> THEN <<>>
    ELSE IF Len(parts) = 1 THEN parts[1]
    ELSE parts[1] \o <<sep>> \o Join(Tail(parts), sep)

\* "".join(parts)
RECURSIVE Concat(_)
Concat(parts) ==
    IF parts = <<>> THEN <<>> ELSE Head(parts) \o Concat(Tail(parts))

(***************************************************************************)
(* Text Extractor                                                          *)
(***************************************************************************)
\* A PDF byte stream: valid = FALSE when PdfReader raises on it; a page has
\* has_text = FALSE when page.extract_text() returns None
Page(has_text, text) == [has_text |-> has_text, text |-> text]
Pdf(valid, pages) == [valid |-> valid, pages |-> pages]

\* page.extract_text() or ""
PageText(page) == IF page.has_text THEN page.text ELSE <<>>

RECURSIVE PagesText(_)
PagesText(pages) ==
    IF pages = <<>> THEN <<>>
    ELSE <<PageText(Head(pages))>> \o PagesText(Tail(pages))

\* extract_text_from_pdf: [ok, text]; ok = FALSE when HTTPException is raised
ExtractText(pdf) ==
    IF ~pdf.valid THEN [ok |-> FALSE, text |-> <<>>]
    ELSE LET text == Concat(PagesText(pdf.pages)) IN
         IF Strip(text) = <<>> THEN [ok |-> FALSE, text |-> <<>>]
         ELSE [ok |-> TRUE, text |-> text]

\* status carried by the HTTPException extract_text_from_pdf raises
ExtractErrorStatus == 400
\* status carried by the HTTPException of a failed Gateway stage
StageErrorStatus == 500
\* status carried by the HTTPException get_db_connection raises
DbErrorStatus == 500
\* the handlers' `except Exception` re-raises whatever was raised, the
\* HTTPException of a stage included, as a new HTTPException(500)
HandlerErrorStatus(raised) == 500

(***************************************************************************)
(* Summarization Stage and Idea Generation Stage (parsing of the output)   *)
(***************************************************************************)
Marker == "Conclusion:"
Placeholder == <<"No specific conclusion was generated.">>

\* faulty variant: output.split("Conclusion:") without the limit of one split
ParseSummaryPartsEvery(output) == Split(output, Marker)

ParseSummaryParts(output) == SplitOnce(output, Marker)

\* generate_summary_and_conclusion after the Gateway call
ParseSummary(output) ==
    LET parts == ParseSummaryParts(output) IN
    [summary |-> Strip(parts[1]),
     conclusion |-> IF Len(parts) > 1 THEN Strip(parts[2]) ELSE Placeholder]

RECURSIVE KeepIdeas(_)
KeepIdeas(lines) ==
    IF lines = <<>> THEN <<>>
    ELSE IF Strip(Head(lines)) # <<>>
         THEN <<Strip(Head(lines))>> \o KeepIdeas(Tail(lines))
         ELSE KeepIdeas(Tail(lines))

\* faulty variant: the comprehension without its `if idea.strip()`
ParseIdeasUnfiltered(output) ==
    LET lines == Split(Strip(output), "\n") IN
    [k \in 1..Len(lines) |-> Strip(lines[k])]

\* generate_project_ideas after the Gateway call
ParseIdeas(output) == KeepIdeas(Split(Strip(output), "\n"))

(***************************************************************************)
(* Persistence Store encoding of project_ideas                             *)
(***************************************************************************)
Separator == "|"

\* "|".join(project_ideas)
EncodeIdeas(ideas) == Join(ideas, Separator)

\* faulty variant: r[4].split("|") without the test for the empty column
DecodeIdeasUnguarded(column) == Split(column, Separator)

\* r[4].split("|") if r[4] else []
DecodeIdeas(column) == IF column = <<>> THEN <<>> ELSE Split(column, Separator)

(***************************************************************************)
(* Sanitization: clean_js_code                                             *)
(*                                                                         *)
(* The two re.sub calls, on symbol sequences.  Both patterns are anchored  *)
(* by symbols their repeated parts cannot match ("=" and "'" for the       *)
(* first, ";" for the second), so a match starting at a position, if there *)
(* is one, has one possible end and the greedy groups given below.         *)
(***************************************************************************)
\* index of the first symbol at or after k that is not whitespace (\s*)
RECURSIVE SkipSpace(_, _)
SkipSpace(s, k) ==
    IF k <= Len(s) /\ s[k] \in Whitespace THEN SkipSpace(s, k + 1) ELSE k

At(s, k) == IF k \in 1..Len(s) THEN s[k] ELSE "<end>"

NoMatch == [ok |-> FALSE, end |-> 0, names |-> <<>>, module |-> <<>>]

\* const\s+([^=]+)\s*=\s*require\('([^']+)'\);?   matched at position i
MatchRequire(s, i) ==
    LET a  == SkipSpace(s, i + 1)            \* after the greedy \s+
        e  == FindFrom(s, "=", i + 1)          \* the "=" the pattern needs
        g  == IF a < e THEN a ELSE e - 1       \* \s+ gives one symbol back
        p  == SkipSpace(s, e + 1)              \* require( after \s*
        q  == FindFrom(s, "'", p + 2)          \* the closing quote
    IN  IF /\ At(s, i) = "const"
           /\ a > i + 1
           /\ e > 0
           /\ g > i + 1
           /\ At(s, p) = "require("
           /\ At(s, p + 1) = "'"
           /\ q > p + 2
           /\ At(s, q + 1) = ")"
        THEN [ok |-> TRUE,
              end |-> IF At(s, q + 2) = ";" THEN q + 2 ELSE q + 1,
              names |-> SubSeq(s, g, e - 1),
              module |-> SubSeq(s, p + 2, q - 1)]
        ELSE NoMatch

\* r'// const \1 = require("\2"); // Commented out for browser compatibility'
RequireReplacement(m) ==
    <<"//", " ", "const", " ">> \o m.names
        \o <<" ", "=", " ", "require(", "\"">> \o m.module
        \o <<"\"", ")", ";", " ", "//", " Commented out for browser compatibility">>

DisallowedModules == {"fs", "path", "http", "module"}
Quotes == {"'", "\""}

AllIn(s, a, b, set) == \A k \in a..b : s[k] \in set
NoneIn(s, a, b, set) == \A k \in a..b : s[k] \notin set

\* the last symbol at or before k that is not whitespace, 0 if none
RECURSIVE SkipSpaceBack(_, _)
SkipSpaceBack(s, k) ==
    IF k >= 1 /\ s[k] \in Whitespace THEN SkipSpaceBack(s, k - 1) ELSE k

\* import\s+[^;\n]+\s+from\s+['"](fs|path|http|module)['"];   matched at i
MatchImport(s, i) ==
    LET e == FindFrom(s, ";", i + 1)           \* the ";" the pattern needs
        f == SkipSpaceBack(s, e - 4)           \* "from", before \s+ and the quote
    IN  IF /\ At(s, i) = "import"
           /\ e > i + 8
           /\ At(s, e - 1) \in Quotes
           /\ At(s, e - 2) \in DisallowedModules
           /\ At(s, e - 3) \in Quotes
           /\ f < e - 4
           /\ At(s, f) = "from"
           /\ \E a \in (i + 2)..(f - 2) : \E b \in a..(f - 2) :
                /\ AllIn(s, i + 1, a - 1, Whitespace)
                /\ NoneIn(s, a, b, {";", "\n"})
                /\ AllIn(s, b + 1, f - 1, Whitespace)
        THEN [ok |-> TRUE, end |-> e, names |-> <<>>, module |-> <<>>]
        ELSE NoMatch

ImportReplacement(m) == <<"//", " Server-side import removed for browser">>

\* re.sub(pattern, replacement, code): leftmost matches, left to right
RECURSIVE SubRequire(_, _)
SubRequire(s, i) ==
    IF i > Len(s) THEN <<>>
    ELSE LET m == MatchRequire(s, i) IN
         IF m.ok THEN RequireReplacement(m) \o SubRequire(s, m.end + 1)
         ELSE <<s[i]>> \o SubRequire(s, i + 1)

RECURSIVE SubImport(_, _)
SubImport(s, i) ==
    IF i > Len(s) THEN <<>>
    ELSE LET m == MatchImport(s, i) IN
         IF m.ok THEN ImportReplacement(m) \o SubImport(s, m.end + 1)
         ELSE <<s[i]>> \o SubImport(s, i + 1)

CleanJsCode(code) == SubImport(SubRequire(code, 1), 1)

(***************************************************************************)
(* Code Generation Stage and Code Edit Stage                               *)
(*                                                                         *)
(* What the Gateway returned: whether the call succeeded, whether the      *)
(* content is JSON, and of the JSON object the members the code can reach: *)
(* the top-level keys present, the kind of the value of "frontend", the    *)
(* keys of that object, the kind of "script_js" and its text.              *)
(***************************************************************************)
TopKeys == {"frontend", "backend", "instructions"}
FrontendKeys == {"index_html", "styles_css", "script_js"}

Failed == [ok |-> FALSE, keys |-> {}, frontend_keys |-> {}, script_js |-> <<>>]

\* faulty variant: data["frontend"].get("script_js", "") instead of the
\* subscript, so that a missing script_js is no KeyError
ParseCodebaseDefaulting(reply) ==
    IF ~reply.gateway_ok \/ ~reply.json_ok THEN Failed
    ELSE IF "frontend" \notin reply.keys THEN Failed
    ELSE IF reply.frontend_kind # "object" THEN Failed
    ELSE [ok |-> TRUE, keys |-> reply.keys,
          frontend_keys |-> reply.frontend_keys \cup {"script_js"},
          script_js |-> IF "script_js" \in reply.frontend_keys
                           /\ reply.script_kind = "string"
                        THEN CleanJsCode(reply.script_js) ELSE <<>>]

\* data = json.loads(content);
\* data["frontend"]["script_js"] = clean_js_code(data["frontend"]["script_js"])
ParseCodebase(reply) ==
    IF ~reply.gateway_ok \/ ~reply.json_ok THEN Failed
    ELSE IF "frontend" \notin reply.keys THEN Failed                \* KeyError
    ELSE IF reply.frontend_kind # "object" THEN Failed             \* TypeError
    ELSE IF "script_js" \notin reply.frontend_keys THEN Failed      \* KeyError
    ELSE IF reply.script_kind # "string" THEN Failed               \* TypeError
    ELSE [ok |-> TRUE, keys |-> reply.keys,
          frontend_keys |-> reply.frontend_keys,
          script_js |-> CleanJsCode(reply.script_js)]

\* generate_website_code(project_idea): the idea only enters the prompt
GenerateWebsiteCode(project_idea, reply) == ParseCodebase(reply)

\* edit_website_code(original_code, edit_request): both only enter the prompt
EditWebsiteCode(original_code, edit_request, reply) == ParseCodebase(reply)

(***************************************************************************)
(* Inputs of the request model                                             *)
(***************************************************************************)
Filenames == {"a.pdf", "b.pdf"}

\* ORDER BY filename: the collation rank of a filename
FilenameRank(f) == IF f = "a.pdf" THEN 1 ELSE 2

GoodPdf == Pdf(TRUE, <<Page(FALSE, <<>>), Page(TRUE, <<"t", " ">>)>>)
BlankPdf == Pdf(TRUE, <<Page(TRUE, <<" ">>), Page(FALSE, <<>>)>>)
MalformedPdf == Pdf(FALSE, <<>>)
Pdfs == {GoodPdf, BlankPdf, MalformedPdf}

\* an UploadFile: file.filename; the stream file.file is read by the extractor
Uploads == [filename : Filenames]

Batches == UNION {[1..n -> Uploads] : n \in 1..MaxFiles}

\* completions the model may return to the two summarize stages
SummaryOutputs == {<<"s", " ", "Conclusion:", " ", "c">>, <<" ", "s">>}
IdeaOutputs == {<<"i", "\n", "\n", " ", "j">>}

(***************************************************************************)
(* State                                                                   *)
(***************************************************************************)
VARIABLES
    variant,    \* "aggregate" (src/api/index.py) or "per_item" (src/app.py)
    store,      \* committed rows of table summaries
    kind,       \* per request: "none", "summarize", "list"
    pc,         \* per request: the step it is about to take
    files,      \* per request: the uploaded batch
    idx,        \* per request: index of the file the loop is at
    cur,        \* per request: summary, conclusion, project_ideas of that file
    results,    \* per request: the results list
    pending,    \* per request: rows executed on its connection, not committed
    conn,       \* per request: the local variable conn holds a connection
    openConns,  \* per request: connections it opened and has not closed
    resp,       \* per request: the HTTP response, status 0 while running
    failedAt,   \* per request: the step that raised, "none" if none did
    calls,      \* per request: extractions, stages, Gateway calls and inserts
    task,       \* stage model: the stage invoked and what it is given
    outcome     \* stage model: what the stage returned

reqVars == <<variant, store, kind, pc, files, idx, cur, results, pending, conn,
             openConns, resp, failedAt, calls>>
stageVars == <<task, outcome>>
vars == <<reqVars, stageVars>>

NoCur == [summary |-> <<>>, conclusion |-> <<>>, project_ideas |-> <<>>]
NoResp == [status |-> 0, body |-> <<>>]
NoCalls == [extract |-> 0, stage |-> 0, gateway |-> 0, insert |-> 0]

Range(f) == {f[k] : k \in DOMAIN f}

NoTask == [fn |-> "none", arg |-> <<>>]
NoOutcome == [done |-> FALSE, ok |-> FALSE, value |-> <<>>]

\* no request has arrived
ReqInit ==
    /\ variant \in {"aggregate", "per_item"}
    /\ store = {}
    /\ kind = [r \in Reqs |-> "none"]
    /\ pc = [r \in Reqs |-> "idle"]
    /\ files = [r \in Reqs |-> <<>>]
    /\ idx = [r \in Reqs |-> 0]
    /\ cur = [r \in Reqs |-> NoCur]
    /\ results = [r \in Reqs |-> <<>>]
    /\ pending = [r \in Reqs |-> <<>>]
    /\ conn = [r \in Reqs |-> FALSE]
    /\ openConns = [r \in Reqs |-> 0]
    /\ resp = [r \in Reqs |-> NoResp]
    /\ failedAt = [r \in Reqs |-> "none"]
    /\ calls = [r \in Reqs |-> NoCalls]

Init ==
    /\ ReqInit
    /\ task = NoTask
    /\ outcome = NoOutcome

(***************************************************************************)
(* Building blocks of the handlers                                         *)
(***************************************************************************)
\* the dict appended to results
Result(file, c) ==
    [filename |-> file.filename, summary |-> c.summary,
     conclusion |-> c.conclusion, project_ideas |-> c.project_ideas]

\* the tuple bound to the INSERT; doc names the request and the position of
\* the file in its batch (history, not a column)
Row(id, file, c, doc) ==
    [id |-> id, filename |-> file.filename, summary |-> c.summary,
     conclusion |-> c.conclusion,
     project_ideas |-> EncodeIdeas(c.project_ideas), doc |-> doc]

\* the dict get_summaries builds from a fetched row (the id is dropped)
Listed(row) ==
    [filename |-> row.filename, summary |-> row.summary,
     conclusion |-> row.conclusion,
     project_ideas |-> DecodeIdeas(row.project_ideas), doc |-> row.doc]

AllPending == UNION {Range(pending[r]) : r \in Reqs}

\* faulty variant: the table has no key constraint
PrimaryKeyUnchecked(id) == TRUE

\* id TEXT PRIMARY KEY: the INSERT is refused when the id is taken
PrimaryKeyFree(id) == \A row \in store \cup AllPending : row.id # id

\* str(uuid.uuid4()): identifiers are opaque and only compared for equality,
\* so a draw is either an identifier already in use or a fresh one, and the
\* least unused identifier stands for every fresh one
Uuid4Values ==
    LET taken == {row.id : row \in store \cup AllPending} IN
    taken \cup {id \in IdSpace : id \notin taken /\ \A j \in 1..(id - 1) : j \in taken}

\* SQLite admits one writer: an INSERT waits (and times out) while another
\* connection holds uncommitted rows; Postgres writers do not block each other
WriterAdmitted(r) ==
    variant = "per_item" => \A o \in Reqs \ {r} : pending[o] = <<>>

\* faulty variant: the connection is in autocommit mode
StoreAfterAutocommit(st, row) == st \cup {row}

\* cur.execute(INSERT) inside a transaction leaves the committed table as is
StoreAfterExecute(st, row) == st

\* conn.commit() publishes the rows of the transaction
StoreAfterCommit(st, rows) == st \cup Range(rows)

\* faulty variant: closing the connection commits what is pending
StoreCommittedOnClose(st, rows) == st \cup Range(rows)

\* conn.close() (or dropping the connection) without commit rolls back
StoreAfterRollback(st, rows) == st

\* every stage makes one client.chat.completions.create call, no retry loop
GatewayCallsPerStage == 1

\* faulty variant: the failure is logged and the loop carries on
PcContinues(nextStep) == nextStep

\* a raise inside the handler's try leaves the loop for the except clause
PcAfterRaise(nextStep) == "abort"

\* an error response that carries the results gathered so far
ErrorBodyPartial(res) == res

\* the HTTPException raised by the handler carries a detail string only
ErrorBody(res) == <<>>

\* the status of the exception a failed step raises
RaisedStatus(step) ==
    IF step = "extract" THEN ExtractErrorStatus
    ELSE IF step \in {"summary", "ideas"} THEN StageErrorStatus
    ELSE DbErrorStatus

\* the SELECT without its ORDER BY: every row once, in any order
FetchedUnordered(st) ==
    {rows \in [1..Cardinality(st) -> st] :
        \A a, b \in DOMAIN rows : a # b => rows[a] # rows[b]}

\* SELECT ... ORDER BY filename; fetchall(): every row once, by filename,
\* rows of equal filename in any order
Fetched(st) ==
    {rows \in [1..Cardinality(st) -> st] :
        /\ \A a, b \in DOMAIN rows : a # b => rows[a] # rows[b]
        /\ \A a, b \in DOMAIN rows :
              a < b => FilenameRank(rows[a].filename) <= FilenameRank(rows[b].filename)}

ListedAll(rows) == [k \in DOMAIN rows |-> Listed(rows[k])]

Bump(c, field, n) == [c EXCEPT ![field] = @ + n]

(***************************************************************************)
(* Requests arriving                                                       *)
(***************************************************************************)
\* POST /api/summarize, POST /summarize
StartSummarize(r, batch) ==
    /\ kind[r] = "none"
    /\ kind' = [kind EXCEPT ![r] = "summarize"]
    /\ files' = [files EXCEPT ![r] = batch]
    /\ idx' = [idx EXCEPT ![r] = 1]
    /\ pc' = [pc EXCEPT ![r] = IF variant = "aggregate" THEN "connect" ELSE "extract"]
    /\ UNCHANGED <<task, outcome, variant, store, cur, results, pending, conn, openConns, resp,
                   failedAt, calls>>

\* GET /api/summaries, GET /summaries
StartList(r) ==
    /\ kind[r] = "none"
    /\ kind' = [kind EXCEPT ![r] = "list"]
    /\ pc' = [pc EXCEPT ![r] = "connect"]
    /\ UNCHANGED <<task, outcome, variant, store, files, idx, cur, results, pending, conn,
                   openConns, resp, failedAt, calls>>

\* a step of request r raised
Raise(r, step, nextStep) ==
    /\ failedAt' = [failedAt EXCEPT ![r] = IF @ = "none" THEN step ELSE @]
    /\ pc' = [pc EXCEPT ![r] = PcAfterRaise(nextStep)]

(***************************************************************************)
(* Opening a connection                                                    *)
(***************************************************************************)
AfterConnect(r) ==
    IF kind[r] = "list" THEN "select"
    ELSE IF variant = "aggregate" THEN "extract" ELSE "insert"

\* get_db_connection() / sqlite3.connect() returned a connection
ConnectOk(r) ==
    /\ pc[r] = "connect"
    /\ conn' = [conn EXCEPT ![r] = TRUE]
    /\ openConns' = [openConns EXCEPT ![r] = @ + 1]
    /\ pc' = [pc EXCEPT ![r] = AfterConnect(r)]
    /\ UNCHANGED <<task, outcome, variant, store, kind, files, idx, cur, results, pending, resp,
                   failedAt, calls>>

\* psycopg2.connect() / sqlite3.connect() raised: no connection exists
ConnectFail(r) ==
    /\ pc[r] = "connect"
    /\ Raise(r, "connect", AfterConnect(r))
    /\ UNCHANGED <<task, outcome, variant, store, kind, files, idx, cur, results, pending, conn,
                   openConns, resp, calls>>

\* src/api/index.py only: connected, then CREATE TABLE or its commit raised;
\* get_db_connection raises and the caller's conn stays None
BootstrapFail(r) ==
    /\ pc[r] = "connect"
    /\ variant = "aggregate"
    /\ openConns' = [openConns EXCEPT ![r] = @ + 1]
    /\ Raise(r, "connect", AfterConnect(r))
    /\ UNCHANGED <<task, outcome, variant, store, kind, files, idx, cur, results, pending, conn,
                   resp, calls>>

(***************************************************************************)
(* The loop body of summarize_papers                                       *)
(***************************************************************************)
CurFile(r) == files[r][idx[r]]

\* text = extract_text_from_pdf(file.file), pdf being what the stream holds;
\* the previous file's summary, conclusion and ideas are dead from here on
Extract(r, pdf) ==
    /\ pc[r] = "extract"
    /\ calls' = [calls EXCEPT ![r] = Bump(@, "extract", 1)]
    /\ IF ExtractText(pdf).ok
       THEN /\ pc' = [pc EXCEPT ![r] = "summary"]
            /\ UNCHANGED failedAt
       ELSE Raise(r, "extract", "summary")
    /\ cur' = [cur EXCEPT ![r] = NoCur]
    /\ UNCHANGED <<task, outcome, variant, store, kind, files, idx, results, pending, conn,
                   openConns, resp>>

StageCalled(r) ==
    calls' = [calls EXCEPT ![r] =
                 Bump(Bump(@, "stage", 1), "gateway", GatewayCallsPerStage)]

\* summary, conclusion = generate_summary_and_conclusion(text)
SummaryOk(r, output) ==
    /\ pc[r] = "summary"
    /\ StageCalled(r)
    /\ LET parsed == ParseSummary(output) IN
       cur' = [cur EXCEPT ![r].summary = parsed.summary,
                          ![r].conclusion = parsed.conclusion]
    /\ pc' = [pc EXCEPT ![r] = "ideas"]
    /\ UNCHANGED <<task, outcome, variant, store, kind, files, idx, results, pending, conn,
                   openConns, resp, failedAt>>

SummaryFail(r) ==
    /\ pc[r] = "summary"
    /\ StageCalled(r)
    /\ Raise(r, "summary", "ideas")
    /\ UNCHANGED <<task, outcome, variant, store, kind, files, idx, cur, results, pending, conn,
                   openConns, resp>>

AfterIdeas == IF variant = "aggregate" THEN "insert" ELSE "connect"

\* project_ideas = generate_project_ideas(summary)
IdeasOk(r, output) ==
    /\ pc[r] = "ideas"
    /\ StageCalled(r)
    /\ cur' = [cur EXCEPT ![r].project_ideas = ParseIdeas(output)]
    /\ pc' = [pc EXCEPT ![r] = AfterIdeas]
    /\ UNCHANGED <<task, outcome, variant, store, kind, files, idx, results, pending, conn,
                   openConns, resp, failedAt>>

IdeasFail(r) ==
    /\ pc[r] = "ideas"
    /\ StageCalled(r)
    /\ Raise(r, "ideas", AfterIdeas)
    /\ UNCHANGED <<task, outcome, variant, store, kind, files, idx, cur, results, pending, conn,
                   openConns, resp>>

\* where the loop goes after the file at idx[r]
AfterFile(r) ==
    IF idx[r] < Len(files[r]) THEN "extract"
    ELSE IF variant = "aggregate" THEN "commit" ELSE "done"

\* cur.execute("INSERT ...", (str(uuid.uuid4()), ...)); in src/api/index.py the
\* results.append and the loop's next iteration follow at once
InsertOk(r, id) ==
    /\ pc[r] = "insert"
    /\ PrimaryKeyFree(id)
    /\ WriterAdmitted(r)
    /\ calls' = [calls EXCEPT ![r] = Bump(@, "insert", 1)]
    /\ LET row == Row(id, CurFile(r), cur[r], <<r, idx[r]>>) IN
       /\ pending' = [pending EXCEPT ![r] = Append(@, row)]
       /\ store' = StoreAfterExecute(store, row)
    /\ IF variant = "aggregate"
       THEN /\ results' = [results EXCEPT ![r] = Append(@, Result(CurFile(r), cur[r]))]
            /\ pc' = [pc EXCEPT ![r] = AfterFile(r)]
            /\ idx' = [idx EXCEPT ![r] = IF AfterFile(r) = "extract" THEN @ + 1 ELSE @]
       ELSE /\ pc' = [pc EXCEPT ![r] = "commit"]
            /\ UNCHANGED <<results, idx>>
    /\ UNCHANGED <<task, outcome, variant, kind, files, cur, conn, openConns, resp, failedAt>>

\* the INSERT raised (key taken, lock timeout, connection lost)
InsertFail(r) ==
    /\ pc[r] = "insert"
    /\ calls' = [calls EXCEPT ![r] = Bump(@, "insert", 1)]
    /\ Raise(r, "insert", IF variant = "aggregate" THEN AfterFile(r) ELSE "commit")
    /\ UNCHANGED <<task, outcome, variant, store, kind, files, idx, cur, results, pending, conn,
                   openConns, resp>>

(***************************************************************************)
(* Commit, close and the responses                                         *)
(***************************************************************************)
Ok(body) == [status |-> 200, body |-> body]

\* conn.commit() succeeded.
\* src/api/index.py: after the loop; finally closes; return JSONResponse(results)
\* src/app.py: per file; conn.close(); results.append(...); next file or return
CommitOk(r) ==
    /\ pc[r] = "commit"
    /\ store' = StoreAfterCommit(store, pending[r])
    /\ pending' = [pending EXCEPT ![r] = <<>>]
    /\ openConns' = [openConns EXCEPT ![r] = @ - 1]
    /\ conn' = [conn EXCEPT ![r] = FALSE]
    /\ IF variant = "aggregate"
       THEN /\ resp' = [resp EXCEPT ![r] = Ok(results[r])]
            /\ pc' = [pc EXCEPT ![r] = "done"]
            /\ UNCHANGED <<results, idx>>
       ELSE LET res == Append(results[r], Result(CurFile(r), cur[r])) IN
            /\ results' = [results EXCEPT ![r] = res]
            /\ pc' = [pc EXCEPT ![r] = AfterFile(r)]
            /\ idx' = [idx EXCEPT ![r] = IF AfterFile(r) = "extract" THEN @ + 1 ELSE @]
            /\ resp' = [resp EXCEPT ![r] = IF AfterFile(r) = "done" THEN Ok(res) ELSE @]
    /\ UNCHANGED <<task, outcome, variant, kind, files, cur, failedAt, calls>>

\* conn.commit() raised
CommitFail(r) ==
    /\ pc[r] = "commit"
    /\ Raise(r, "commit", "abort")
    /\ UNCHANGED <<task, outcome, variant, store, kind, files, idx, cur, results, pending, conn,
                   openConns, resp, calls>>

\* cur.execute(SELECT ...); rows = cur.fetchall(); conn.close(); the response
SelectOk(r, rows) ==
    /\ pc[r] = "select"
    /\ rows \in Fetched(store)
    /\ resp' = [resp EXCEPT ![r] = Ok(ListedAll(rows))]
    /\ openConns' = [openConns EXCEPT ![r] = @ - 1]
    /\ conn' = [conn EXCEPT ![r] = FALSE]
    /\ pc' = [pc EXCEPT ![r] = "done"]
    /\ UNCHANGED <<task, outcome, variant, store, kind, files, idx, cur, results, pending,
                   failedAt, calls>>

\* the SELECT raised
SelectFail(r) ==
    /\ pc[r] = "select"
    /\ Raise(r, "select", "abort")
    /\ UNCHANGED <<task, outcome, variant, store, kind, files, idx, cur, results, pending, conn,
                   openConns, resp, calls>>

\* The exception leaves the handler.
\* src/api/index.py: except Exception -> HTTPException(500); finally closes conn
\* if it is not None; the open transaction is rolled back.
\* src/app.py: except Exception -> HTTPException(500) (get_summaries: the
\* framework's 500); nothing closes the connection, whose uncommitted rows are
\* rolled back when it is dropped.
Abort(r) ==
    /\ pc[r] = "abort"
    /\ resp' = [resp EXCEPT ![r] =
                   [status |-> HandlerErrorStatus(RaisedStatus(failedAt[r])),
                    body |-> ErrorBody(results[r])]]
    /\ store' = StoreAfterRollback(store, pending[r])
    /\ pending' = [pending EXCEPT ![r] = <<>>]
    /\ IF variant = "aggregate" /\ conn[r]
       THEN /\ openConns' = [openConns EXCEPT ![r] = @ - 1]
            /\ conn' = [conn EXCEPT ![r] = FALSE]
       ELSE UNCHANGED <<openConns, conn>>
    /\ pc' = [pc EXCEPT ![r] = "done"]
    /\ UNCHANGED <<task, outcome, variant, kind, files, idx, cur, results, failedAt, calls>>

(***************************************************************************)
(* Specification of the request model                                      *)
(***************************************************************************)
Next ==
    \/ \E r \in Reqs, batch \in Batches : StartSummarize(r, batch)
    \/ \E r \in Reqs : StartList(r)
    \/ \E r \in Reqs : ConnectOk(r)
    \/ \E r \in Reqs : ConnectFail(r)
    \/ \E r \in Reqs : BootstrapFail(r)
    \/ \E r \in Reqs, pdf \in Pdfs : Extract(r, pdf)
    \/ \E r \in Reqs, output \in SummaryOutputs : SummaryOk(r, output)
    \/ \E r \in Reqs : SummaryFail(r)
    \/ \E r \in Reqs, output \in IdeaOutputs : IdeasOk(r, output)
    \/ \E r \in Reqs : IdeasFail(r)
    \/ \E r \in Reqs, id \in Uuid4Values : InsertOk(r, id)
    \/ \E r \in Reqs : InsertFail(r)
    \/ \E r \in Reqs : CommitOk(r)
    \/ \E r \in Reqs : CommitFail(r)
    \/ \E r \in Reqs, rows \in Fetched(store) : SelectOk(r, rows)
    \/ \E r \in Reqs : SelectFail(r)
    \/ \E r \in Reqs : Abort(r)

Spec == Init /\ [][Next]_vars

(***************************************************************************)
(* Stage model: one stage applied to one input                             *)
(***************************************************************************)
MaxLen == 4         \* symbols in a model completion
MaxStmts == 2       \* statements in a generated script

BoundedSeq(S, n) == UNION {[1..k -> S] : k \in 0..n}

SummaryTexts == BoundedSeq({"s", " ", Marker}, MaxLen)

SixLines == <<"i", "\n", "i", "\n", "i", "\n", "i", "\n", "i", "\n", "i">>
IdeaTexts == BoundedSeq({"i", " ", "\n", Separator}, MaxLen) \cup {SixLines}

IdeaLists == {ParseIdeas(o) : o \in IdeaTexts}

\* statements the model may write into script.js
RequireStmt(kw, names, q, semi) ==
    <<kw, " ">> \o names \o <<" ", "=", " ", "require(", q, "fs", q, ")">> \o semi
ImportStmt(q, mod) ==
    <<"import", " ", "x", " ", "from", " ", q, mod, q, ";">>
CallStmt == <<"x", "(", ")", ";">>

Statements ==
    {RequireStmt(kw, names, q, semi) :
        kw \in {"const", "let"}, names \in {<<"x">>, <<"x", ",", "\n", "y">>},
        q \in Quotes, semi \in {<<>>, <<";">>}}
    \cup {ImportStmt(q, mod) : q \in Quotes, mod \in {"fs", "lib"}}
    \cup {CallStmt}

Scripts ==
    UNION {{Join(stmts, "\n") : stmts \in [1..n -> Statements]} : n \in 1..MaxStmts}

Reply(gateway_ok, json_ok, keys, frontend_kind, frontend_keys, script_kind, script_js) ==
    [gateway_ok |-> gateway_ok, json_ok |-> json_ok, keys |-> keys,
     frontend_kind |-> frontend_kind, frontend_keys |-> frontend_keys,
     script_kind |-> script_kind, script_js |-> script_js]

Replies ==
    {Reply(FALSE, FALSE, {}, "null", {}, "null", <<>>),         \* the call raised
     Reply(TRUE, FALSE, {}, "null", {}, "null", <<>>)}          \* not JSON
    \cup {Reply(TRUE, TRUE, TopKeys, "object", FrontendKeys, "string", script) :
            script \in Scripts}
    \cup {Reply(TRUE, TRUE, keys, fk, fkeys, sk, CallStmt) :
            keys \in SUBSET TopKeys, fk \in {"object", "string", "null"},
            fkeys \in SUBSET FrontendKeys, sk \in {"string", "null"}}

ProjectIdeas == {<<"i">>}
EditRequests == {<<"e">>, <<"remove", " ", "require(">>}
OriginalCodes == {CallStmt, RequireStmt("const", <<"x">>, "'", <<";">>)}

\* request bodies of the two code endpoints: the keys the JSON object has and
\* their values; an empty string and an empty object are values too
EmptyDict == [keys |-> {}, script_js |-> <<>>]
CodeDict(script) == [keys |-> TopKeys, script_js |-> script]

GenerateBodies ==
    {[keys |-> keys, idea |-> idea] :
        keys \in SUBSET {"idea"}, idea \in ProjectIdeas \cup {<<>>}}

EditBodies ==
    {[keys |-> keys, original_code |-> code, edit_request |-> req] :
        keys \in SUBSET {"original_code", "edit_request"},
        code \in {CodeDict(c) : c \in OriginalCodes} \cup {EmptyDict},
        req \in EditRequests \cup {<<>>}}

ApiReplies == {reply \in Replies : reply.script_js \in {<<>>, CallStmt}}

\* `not data.get(key)`: the key is absent (None), or its value is empty
EmptyOf(key) == IF key = "original_code" THEN EmptyDict ELSE <<>>
Falsy(data, key) == key \notin data.keys \/ data[key] = EmptyOf(key)

BadRequestStatus == 400

NoBody == [codebase |-> Failed, has_project_idea |-> FALSE, project_idea |-> <<>>]
ApiResponse(status, gateway_calls, body) ==
    [status |-> status, gateway_calls |-> gateway_calls, body |-> body]

\* the handler with the stage called before the body is validated
GenerateWebsiteCodeApiLate(data, reply) ==
    LET result == GenerateWebsiteCode(data.idea, reply)
    IN  IF Falsy(data, "idea")
        THEN ApiResponse(BadRequestStatus, GatewayCallsPerStage, NoBody)
        ELSE IF ~result.ok
        THEN ApiResponse(StageErrorStatus, GatewayCallsPerStage, NoBody)
        ELSE ApiResponse(200, GatewayCallsPerStage,
                         [codebase |-> result, has_project_idea |-> TRUE,
                          project_idea |-> data.idea])
\* generate_website_code_api: the stage's HTTPException is not caught
GenerateWebsiteCodeApi(data, reply) ==
    IF Falsy(data, "idea")
    THEN ApiResponse(BadRequestStatus, 0, NoBody)
    ELSE LET result == GenerateWebsiteCode(data.idea, reply)
         IN  IF ~result.ok
             THEN ApiResponse(StageErrorStatus, GatewayCallsPerStage, NoBody)
             ELSE ApiResponse(200, GatewayCallsPerStage,
                              [codebase |-> result, has_project_idea |-> TRUE,
                               project_idea |-> data.idea])

\* edit_code_api: the result of the stage is returned as it is
EditCodeApi(data, reply) ==
    IF Falsy(data, "original_code") \/ Falsy(data, "edit_request")
    THEN ApiResponse(BadRequestStatus, 0, NoBody)
    ELSE LET result == EditWebsiteCode(data.original_code.script_js,
                                       data.edit_request, reply)
         IN  IF ~result.ok
             THEN ApiResponse(StageErrorStatus, GatewayCallsPerStage, NoBody)
             ELSE ApiResponse(200, GatewayCallsPerStage,
                              [codebase |-> result, has_project_idea |-> FALSE,
                               project_idea |-> <<>>])

Tasks ==
    {[fn |-> "summary", arg |-> o] : o \in SummaryTexts}
    \cup {[fn |-> "ideas", arg |-> o] : o \in IdeaTexts}
    \cup {[fn |-> "roundtrip", arg |-> ideas] : ideas \in IdeaLists}
    \cup {[fn |-> "generate", arg |-> [project_idea |-> idea, reply |-> reply]] :
            idea \in ProjectIdeas, reply \in Replies}
    \cup {[fn |-> "edit",
           arg |-> [original_code |-> code, edit_request |-> req, reply |-> reply]] :
            code \in OriginalCodes, req \in EditRequests, reply \in Replies}
    \cup {[fn |-> "generate_api", arg |-> [data |-> data, reply |-> reply]] :
            data \in GenerateBodies, reply \in ApiReplies}
    \cup {[fn |-> "edit_api", arg |-> [data |-> data, reply |-> reply]] :
            data \in EditBodies, reply \in ApiReplies}

Returned(ok, value) == [done |-> TRUE, ok |-> ok, value |-> value]

StagesInit ==
    /\ ReqInit
    /\ variant = "aggregate"
    /\ task \in Tasks
    /\ outcome = NoOutcome

\* generate_summary_and_conclusion, the completion being task.arg
ApplySummary ==
    /\ task.fn = "summary" /\ ~outcome.done
    /\ outcome' = Returned(TRUE, ParseSummary(task.arg))
    /\ UNCHANGED <<task, reqVars>>

\* generate_project_ideas, the completion being task.arg
ApplyIdeas ==
    /\ task.fn = "ideas" /\ ~outcome.done
    /\ outcome' = Returned(TRUE, ParseIdeas(task.arg))
    /\ UNCHANGED <<task, reqVars>>

\* the INSERT of summarize_papers followed by get_summaries, for the ideas
\* list task.arg
ApplyRoundTrip ==
    /\ task.fn = "roundtrip" /\ ~outcome.done
    /\ LET c == [NoCur EXCEPT !.project_ideas = task.arg]
           row == Row(1, [filename |-> "a.pdf"], c, <<1, 1>>)
       IN outcome' = Returned(TRUE, Listed(row).project_ideas)
    /\ UNCHANGED <<task, reqVars>>

\* generate_website_code
ApplyGenerate ==
    /\ task.fn = "generate" /\ ~outcome.done
    /\ LET data == GenerateWebsiteCode(task.arg.project_idea, task.arg.reply)
       IN outcome' = Returned(data.ok, data)
    /\ UNCHANGED <<task, reqVars>>

\* edit_website_code
ApplyEdit ==
    /\ task.fn = "edit" /\ ~outcome.done
    /\ LET data == EditWebsiteCode(task.arg.original_code, task.arg.edit_request,
                                   task.arg.reply)
       IN outcome' = Returned(data.ok, data)
    /\ UNCHANGED <<task, reqVars>>

\* POST /api/generate-website with the body task.arg.data
ApplyGenerateApi ==
    /\ task.fn = "generate_api" /\ ~outcome.done
    /\ LET response == GenerateWebsiteCodeApi(task.arg.data, task.arg.reply)
       IN outcome' = Returned(response.status = 200, response)
    /\ UNCHANGED <<task, reqVars>>

\* POST /api/edit-code with the body task.arg.data
ApplyEditApi ==
    /\ task.fn = "edit_api" /\ ~outcome.done
    /\ LET response == EditCodeApi(task.arg.data, task.arg.reply)
       IN outcome' = Returned(response.status = 200, response)
    /\ UNCHANGED <<task, reqVars>>

StagesNext ==
    \/ ApplySummary
    \/ ApplyIdeas
    \/ ApplyRoundTrip
    \/ ApplyGenerate
    \/ ApplyEdit
    \/ ApplyGenerateApi
    \/ ApplyEditApi

SpecStages == StagesInit /\ [][StagesNext]_vars

(***************************************************************************)
(* Properties of the request model (checked under Spec)                    *)
(***************************************************************************)
Summarizes(r) == kind[r] = "summarize"
Lists(r) == kind[r] = "list"
Ended(r) == pc[r] = "done"
FailedRequest(r) == Ended(r) /\ failedAt[r] # "none"

RowsOf(r) == {row \in store : row.doc[1] = r}

\* C1: a summarize request that failed in text extraction ends with status
\* 400, one that failed in a model call or in the store with status 500.
C1_StatusByFailedStep ==
    \A r \in Reqs :
        (Summarizes(r) /\ FailedRequest(r)) =>
            resp[r].status = IF failedAt[r] = "extract" THEN 400 ELSE 500

\* C2: aggregate variant: once a request that failed in extraction,
\* summarization, idea generation or INSERT has ended, none of its rows is in
\* the committed table, whatever it had inserted before; rows of a request are
\* committed only when every file of its batch succeeded.
C2_AllOrNothing ==
    variant = "aggregate" =>
        \A r \in Reqs :
            /\ (Summarizes(r) /\ Ended(r)
                  /\ failedAt[r] \in {"extract", "summary", "ideas", "insert"})
                 => RowsOf(r) = {}
            /\ RowsOf(r) # {} =>
                 /\ failedAt[r] = "none"
                 /\ Len(results[r]) = Len(files[r])
                 /\ {row.doc[2] : row \in RowsOf(r)} = 1..Len(files[r])

\* a batch that failed at its second file, after the first was inserted
C2_Witness ==
    /\ variant = "aggregate"
    /\ \E r \in Reqs :
        /\ Summarizes(r) /\ Ended(r)
        /\ failedAt[r] \in {"extract", "summary", "ideas", "insert"}
        /\ idx[r] = 2 /\ Len(results[r]) = 1 /\ calls[r].insert >= 1
        /\ RowsOf(r) = {}

\* documents of an ended request r whose extraction, summarization, idea
\* generation and INSERT all succeeded (results.append follows the INSERT in
\* src/api/index.py, the commit in src/app.py); a document whose commit was
\* attempted and raised is not counted as successfully inserted
Processed(r) ==
    IF failedAt[r] = "commit" /\ variant = "aggregate" THEN {}
    ELSE 1..Len(results[r])

\* documents of request r whose INSERT was committed
Committed(r) ==
    IF variant = "per_item" THEN 1..Len(results[r])
    ELSE IF Summarizes(r) /\ Ended(r) /\ failedAt[r] = "none"
         THEN 1..Len(files[r]) ELSE {}

DocsStored(r) == {row.doc[2] : row \in RowsOf(r)}

DistinctRecords ==
    \A a, b \in store : a # b => (a.id # b.id /\ a.doc # b.doc)

\* C3 as stated: once a request has ended, the store holds exactly one record
\* for each of its documents whose extraction, summarization, idea generation
\* and INSERT succeeded, each under its own identifier.
C3_OneRecordPerProcessed ==
    /\ DistinctRecords
    /\ \A r \in Reqs : Ended(r) => DocsStored(r) = Processed(r)

\* C3 amended: at all times the store holds exactly one record for each
\* document whose INSERT was committed (src/app.py: its own commit succeeded;
\* src/api/index.py: every file of its batch succeeded and the batch commit
\* succeeded), under its own identifier and with the document's filename, and
\* no step modifies or removes a committed record.
C3_OneRecordPerCommitted ==
    /\ [](/\ DistinctRecords
          /\ \A r \in Reqs : DocsStored(r) = Committed(r)
          /\ \A row \in store :
                row.filename = files[row.doc[1]][row.doc[2]].filename)
    /\ [][store \subseteq store']_vars

\* a request has ended in failure with a processed document that has no
\* record, while committed records are in the store
C3_Witness ==
    /\ store # {}
    /\ \E r \in Reqs :
        /\ Summarizes(r) /\ FailedRequest(r)
        /\ Processed(r) \ Committed(r) # {}
        /\ DocsStored(r) = Committed(r)

\* the rows of batch b in the response of list request l
ListedOf(l, b) == {k \in DOMAIN resp[l].body : resp[l].body[k].doc[1] = b}

NoPartialBatch(l) ==
    (Lists(l) /\ Ended(l) /\ resp[l].status = 200) =>
        \A b \in Reqs :
            Summarizes(b) => Cardinality(ListedOf(l, b)) \in {0, Len(files[b])}

\* C4 as stated: no list response contains some but not all rows of a batch.
C4_NoPartialBatch == \A l \in Reqs : NoPartialBatch(l)

\* C4 amended: in the aggregate-commit variant (src/api/index.py) no list
\* response contains some but not all rows of a batch.
C4_AggregateNoPartialBatch ==
    variant = "aggregate" => \A l \in Reqs : NoPartialBatch(l)

\* a list answered while a two-file batch had both rows inserted, uncommitted
C4_Witness ==
    /\ variant = "aggregate"
    /\ \E l, b \in Reqs :
        /\ Lists(l) /\ Ended(l) /\ resp[l].status = 200
        /\ Summarizes(b) /\ pc[b] = "commit" /\ Len(pending[b]) = 2
        /\ ListedOf(l, b) = {}

\* C8: every stage invocation makes one Gateway call; once a step of a
\* request has failed the request makes no further extraction, Gateway call
\* or INSERT, and it ends in an error response without results.
C8_FailFast ==
    /\ [](\A r \in Reqs :
            /\ calls[r].gateway = calls[r].stage
            /\ FailedRequest(r) => (resp[r].status = 500 /\ resp[r].body = <<>>))
    /\ [][\A r \in Reqs : failedAt[r] # "none" => calls'[r] = calls[r]]_vars

\* a two-file batch whose first summarization failed: one extraction, one
\* Gateway call, no insert, and the second file never started
C8_Witness ==
    \E r \in Reqs :
        /\ Summarizes(r) /\ FailedRequest(r)
        /\ Len(files[r]) = 2 /\ idx[r] = 1 /\ failedAt[r] = "summary"
        /\ calls[r] = [extract |-> 1, stage |-> 1, gateway |-> 1, insert |-> 0]
        /\ resp[r].status = 500 /\ resp[r].body = <<>>

(***************************************************************************)
(* Properties of the stage model (checked under SpecStages)                *)
(***************************************************************************)
Applied(fn) == task.fn = fn /\ outcome.done

\* t is s without its leading and trailing whitespace
TrimmedOf(s, t) ==
    \E a \in 1..(Len(s) + 1), b \in 0..Len(s) :
        /\ t = SubSeq(s, a, b)
        /\ AllIn(s, 1, a - 1, Whitespace)
        /\ AllIn(s, b + 1, Len(s), Whitespace)
        /\ t = <<>> \/ (t[1] \notin Whitespace /\ t[Len(t)] \notin Whitespace)

HasSeparator(ideas) ==
    \E k \in DOMAIN ideas : \E j \in DOMAIN ideas[k] : ideas[k][j] = Separator

\* C5: an ideas list of the Idea Generation Stage, inserted and read back by
\* the list operation, comes back equal when no idea contains "|" and
\* different when some idea contains "|".
C5_RoundTrip ==
    Applied("roundtrip") =>
        /\ ~HasSeparator(task.arg) => outcome.value = task.arg
        /\ HasSeparator(task.arg) => outcome.value # task.arg

\* a list of two ideas without "|" came back as it was stored
C5_Witness ==
    /\ Applied("roundtrip")
    /\ Len(task.arg) >= 2 /\ ~HasSeparator(task.arg)
    /\ outcome.value = task.arg

\* the reply is a JSON object that has the member at the path
HasTop(reply, key) == reply.gateway_ok /\ reply.json_ok /\ key \in reply.keys
HasFrontend(reply, key) ==
    HasTop(reply, "frontend") /\ reply.frontend_kind = "object"
        /\ key \in reply.frontend_keys

FullShape(reply) ==
    /\ \A key \in TopKeys : HasTop(reply, key)
    /\ \A key \in FrontendKeys : HasFrontend(reply, key)

CodeStageApplied == Applied("generate") \/ Applied("edit")

\* C6 as stated: the code stages fail whenever the returned object lacks one
\* of frontend, frontend.index_html, frontend.styles_css, frontend.script_js,
\* backend, instructions.
C6_FailsOnAnyMissingKey ==
    CodeStageApplied => (~FullShape(task.arg.reply) => ~outcome.ok)

\* C6 amended: the code stages fail whenever the returned object lacks
\* frontend or frontend.script_js, the two members the code reads; a
\* successful result always has frontend.script_js, and nothing else of the
\* shape is guaranteed.
C6_FailsOnMissingScript ==
    CodeStageApplied =>
        /\ ~HasFrontend(task.arg.reply, "script_js") => ~outcome.ok
        /\ outcome.ok =>
             /\ "frontend" \in outcome.value.keys
             /\ "script_js" \in outcome.value.frontend_keys

\* the object had frontend but no frontend.script_js, and the stage failed
C6_Witness ==
    /\ CodeStageApplied
    /\ HasTop(task.arg.reply, "frontend")
    /\ task.arg.reply.frontend_kind = "object"
    /\ "script_js" \notin task.arg.reply.frontend_keys
    /\ ~outcome.ok

\* position k of script s lies in a // comment
InLineComment(s, k) ==
    \E c \in 1..(k - 1) : s[c] = "//" /\ NoneIn(s, c, k, {"\n"})

\* C7: the script_js a successful Code Edit Stage returns has every require(
\* inside a comment.
C7_NoLiveRequire ==
    (Applied("edit") /\ outcome.ok) =>
        \A k \in DOMAIN outcome.value.script_js :
            outcome.value.script_js[k] = "require(" =>
                InLineComment(outcome.value.script_js, k)

HasMarker(o) == \E k \in DOMAIN o : o[k] = Marker

\* C9: the summary is the trimmed text before the first "Conclusion:" and the
\* conclusion the trimmed text after it; without the marker the summary is
\* the trimmed output, the conclusion the placeholder, and the stage succeeds.
C9_SplitAtFirstMarker ==
    Applied("summary") =>
        LET o == task.arg
            v == outcome.value
        IN  /\ outcome.ok
            /\ HasMarker(o) =>
                 \E k \in DOMAIN o :
                    /\ o[k] = Marker
                    /\ NoneIn(o, 1, k - 1, {Marker})
                    /\ TrimmedOf(SubSeq(o, 1, k - 1), v.summary)
                    /\ TrimmedOf(SubSeq(o, k + 1, Len(o)), v.conclusion)
            /\ ~HasMarker(o) =>
                 /\ TrimmedOf(o, v.summary)
                 /\ v.conclusion = Placeholder

\* an output with two markers: the second one stayed in the conclusion
C9_Witness ==
    /\ Applied("summary")
    /\ Cardinality({k \in DOMAIN task.arg : task.arg[k] = Marker}) = 2
    /\ HasMarker(outcome.value.conclusion)
    /\ ~HasMarker(outcome.value.summary)

\* the lines of o, by their first positions: a line starts at 1 and after
\* every line break and ends before the next line break
LineStarts(o) == {1} \cup {k + 1 : k \in {j \in DOMAIN o : o[j] = "\n"}}
LineEnd(o, a) ==
    CHOOSE b \in (a - 1)..Len(o) :
        /\ NoneIn(o, a, b, {"\n"})
        /\ b = Len(o) \/ o[b + 1] = "\n"
LineAt(o, a) == SubSeq(o, a, LineEnd(o, a))
KeptStarts(o) == {a \in LineStarts(o) : ~IsBlank(LineAt(o, a))}

\* C10: the ideas are the lines of the output, trimmed, the empty ones
\* removed, in their order; so every idea is non-empty, trimmed and without
\* line break, and any count is a success.
C10_IdeasAreTrimmedLines ==
    Applied("ideas") =>
        LET o == task.arg
            v == outcome.value
            kept == KeptStarts(o)
        IN  /\ outcome.ok
            /\ Len(v) = Cardinality(kept)
            /\ \A a \in kept :
                 TrimmedOf(LineAt(o, a), v[Cardinality({x \in kept : x <= a})])
            /\ \A k \in DOMAIN v :
                 /\ v[k] # <<>>
                 /\ v[k][1] \notin Whitespace
                 /\ v[k][Len(v[k])] \notin Whitespace
                 /\ NoneIn(v[k], 1, Len(v[k]), {"\n"})

\* six ideas were returned and accepted
C10_Witness ==
    /\ Applied("ideas")
    /\ outcome.ok
    /\ Len(outcome.value) > 5

(***************************************************************************)
(* Properties of the code endpoints (checked under SpecStages)             *)
(***************************************************************************)
Absent(key) == key \notin task.arg.data.keys
Response == outcome.value
CalledOnce ==
    /\ Response.gateway_calls = 1
    /\ Response.status \in {200, StageErrorStatus}
    /\ ~task.arg.reply.gateway_ok => Response.status = StageErrorStatus
RejectedUncalled ==
    /\ Response.status = BadRequestStatus
    /\ Response.gateway_calls = 0
    /\ ~Response.body.has_project_idea
IdeaAttached ==
    IF Response.status = 200
    THEN /\ Response.body.has_project_idea
         /\ Response.body.project_idea = task.arg.data.idea
    ELSE ~Response.body.has_project_idea

\* C11 as stated: a code request with a required field absent from its body
\* is rejected with 400 and no Gateway call; with the required fields in the
\* body exactly one Gateway call is made, its failure gives 500, and the idea
\* is attached to a successful generation and to nothing else.
C11_RejectsAbsentCallsOncePresent ==
    /\ Applied("generate_api") =>
         IF Absent("idea") THEN RejectedUncalled
         ELSE CalledOnce /\ IdeaAttached
    /\ Applied("edit_api") =>
         IF Absent("original_code") \/ Absent("edit_request") THEN RejectedUncalled
         ELSE CalledOnce /\ ~Response.body.has_project_idea

\* C11: a code request with a required field absent or empty is rejected
\* with 400 and no Gateway call; with every required field non-empty exactly
\* one Gateway call is made, its failure gives 500, and the idea is attached
\* to a successful generation and to nothing else.
C11_RejectsEmptyCallsOnceGiven ==
    /\ Applied("generate_api") =>
         IF Falsy(task.arg.data, "idea") THEN RejectedUncalled
         ELSE CalledOnce /\ IdeaAttached
    /\ Applied("edit_api") =>
         IF Falsy(task.arg.data, "original_code") \/ Falsy(task.arg.data, "edit_request")
         THEN RejectedUncalled
         ELSE CalledOnce /\ ~Response.body.has_project_idea

\* a generation succeeded and carries the submitted idea
C11_Witness ==
    /\ Applied("generate_api")
    /\ Response.status = 200
    /\ Response.gateway_calls = 1
    /\ Response.body.project_idea = <<"i">>

(***************************************************************************)
(* Properties of the list operation (checked under Spec)                   *)
(***************************************************************************)
\* request l takes its SELECT step and answers 200
ListAnswers(l) ==
    /\ pc[l] = "select"
    /\ pc'[l] = "done"
    /\ resp'[l].status = 200

SameRecord(entry, rec) ==
    /\ entry.filename = rec.filename
    /\ entry.summary = rec.summary
    /\ entry.conclusion = rec.conclusion

Succeeded(s) == Summarizes(s) /\ Ended(s) /\ resp[s].status = 200

\* C12: a list response holds every record committed when the SELECT runs
\* exactly once, in non-decreasing order of filename whatever the order of
\* insertion; and for every summarize request that succeeded before, it holds
\* a record for each file of the request with the file's filename, summary
\* and conclusion as that request returned them.
C12_ListsCommittedByFilename ==
    [][\A l \in Reqs : ListAnswers(l) =>
         LET body == resp'[l].body
         IN  /\ Len(body) = Cardinality(store)
             /\ \A row \in store :
                  /\ Cardinality({k \in DOMAIN body : body[k].doc = row.doc}) = 1
                  /\ \A k \in DOMAIN body :
                       body[k].doc = row.doc => SameRecord(body[k], row)
             /\ \A a, b \in DOMAIN body :
                  a < b => FilenameRank(body[a].filename) <= FilenameRank(body[b].filename)
             /\ \A s \in Reqs : Succeeded(s) =>
                  \A k \in DOMAIN files[s] :
                     \E j \in DOMAIN body :
                        /\ body[j].doc = <<s, k>>
                        /\ body[j].filename = files[s][k].filename
                        /\ SameRecord(body[j], resp[s].body[k])
    ]_vars

\* a list answered after a request that stored b.pdf before a.pdf, and
\* returned a.pdf first
C12_Witness ==
    \E l, s \in Reqs :
        /\ Lists(l) /\ Ended(l) /\ resp[l].status = 200
        /\ Summarizes(s) /\ Ended(s) /\ resp[s].status = 200
        /\ Len(files[s]) = 2
        /\ files[s][1].filename = "b.pdf" /\ files[s][2].filename = "a.pdf"
        /\ Len(resp[l].body) = 2
        /\ resp[l].body[1].doc = <<s, 2>>
        /\ resp[l].body[2].doc = <<s, 1>>

(***************************************************************************)
(* Properties of the per-item variant (checked under Spec)                 *)
(***************************************************************************)
\* C13: in src/app.py, when file N of a batch fails, the rows of files
\* 1..N-1 are stored and stay stored, there is no row for file N or a later
\* file, and the request ends in an error whose response holds none of the
\* results computed for files 1..N-1.
C13_PerItemKeepsEarlierRows ==
    variant = "per_item" =>
        \A r \in Reqs : Summarizes(r) /\ FailedRequest(r) =>
            /\ DocsStored(r) = 1..(idx[r] - 1)
            /\ Len(results[r]) = idx[r] - 1
            /\ resp[r].status >= 400
            /\ \A k \in DOMAIN results[r] :
                 \A j \in DOMAIN resp[r].body : resp[r].body[j] # results[r][k]
            /\ resp[r].body = <<>>

\* the second file of a batch failed after the first was committed
C13_Witness ==
    /\ variant = "per_item"
    /\ \E r \in Reqs :
         /\ Summarizes(r) /\ FailedRequest(r)
         /\ idx[r] = 2
         /\ DocsStored(r) = {1}
         /\ Len(results[r]) = 1

(***************************************************************************)
(* Connections (checked under Spec)                                        *)
(***************************************************************************)
\* C14: when a summarize or list request has ended, on its success path or
\* on any failure path, every database connection it opened is closed.
C14_ConnectionsClosed ==
    \A r \in Reqs : Ended(r) => openConns[r] = 0

====
